---------------------------- MODULE Spec2Model ----------------------------
(***************************************************************************)
(* AC'97 audio driver (src/src/driver/ac97.rs): the register bitfields,    *)
(* device bring-up (Ac97::new) and the playback loop (Ac97::play_audio),   *)
(* run against a model of the codec's bus-master engine.                   *)
(*                                                                         *)
(* Numbers.  TLC's integers are 32-bit signed, so a u32 is kept as its two *)
(* 16-bit halves [hi, lo]; u8 and u16 values are plain naturals.  A byte   *)
(* string (the caller's audio, the DMA buffer) is kept run-length encoded: *)
(* a sequence of runs [b |-> byte, n |-> count] with no empty run and no   *)
(* two adjacent runs of the same byte.  The encoding is lossless, so the   *)
(* window of 31 * 0xFFFE * 2 bytes keeps its real size.                    *)
(***************************************************************************)
EXTENDS Integers, Sequences, FiniteSets, TLC

VARIABLES
    pc,        \* position of the driver's thread of control
    regs,      \* the device's registers, as the hardware holds them
    mem,       \* where the allocator placed buf and bdl (physical addresses)
    buf,       \* Ac97::buf, the audio buffer
    bdl,       \* Ac97::bdl, the descriptor ring
    data,      \* play_audio's argument
    off,       \* play_audio's cursor
    trace,     \* accesses made by the call in progress (a poll that must repeat is not listed)
    rTy,       \* register model: the register type under test
    rStruct,   \* register model: the bitfield struct (its bits)
    rPrev,     \* register model: the struct before the last operation
    rRaw,      \* register model: the last raw integer converted from or to
    rOp        \* register model: the last operation applied

vars == <<pc, regs, mem, buf, bdl, data, off, trace, rTy, rStruct, rPrev, rRaw, rOp>>

driverVars == <<pc, regs, mem, buf, bdl, data, off, trace>>

regVars == <<rTy, rStruct, rPrev, rRaw, rOp>>

(***************************************************************************)
(* Bits.                                                                   *)
(***************************************************************************)
Min(a, b) == IF a < b THEN a ELSE b

BitOf(x, i) == (x \div (2 ^ i)) % 2

\* uN::to_le_bytes for N <= 16: the bits of a natural, least significant first.
BitsOfNat(x, n) == [i \in 0 .. (n - 1) |-> BitOf(x, i)]

\* The value of bits lo .. lo + w - 1 of a bit array (w <= 16).
RECURSIVE NatOfBits(_, _, _)
NatOfBits(b, lo, w) ==
    IF w = 0 THEN 0 ELSE b[lo] + 2 * NatOfBits(b, lo + 1, w - 1)

\* u32::to_le_bytes and back, a u32 being its halves [hi, lo].
BitsOfU32(r) ==
    [i \in 0 .. 31 |-> IF i < 16 THEN BitOf(r.lo, i) ELSE BitOf(r.hi, i - 16)]

U32OfBits(b) == [hi |-> NatOfBits(b, 16, 16), lo |-> NatOfBits(b, 0, 16)]

U32(hi, lo) == [hi |-> hi, lo |-> lo]

\* u32 wrapping addition of a natural below 2^31.
U32AddWrap(r, k) ==
    LET l == r.lo + (k % 65536)
        h == r.hi + (k \div 65536) + (l \div 65536)
    IN  [hi |-> h % 65536, lo |-> l % 65536]

\* Whether r + k exceeds u32::MAX.
U32AddOverflows(r, k) ==
    r.hi + (k \div 65536) + ((r.lo + (k % 65536)) \div 65536) >= 65536

(***************************************************************************)
(* The register model: each #[bitfield] struct is its bits; the layout     *)
(* lists the fields from the least significant bit, skipped fields too.    *)
(***************************************************************************)
F(name, bits, kind) == [name |-> name, bits |-> bits, kind |-> kind]

MasterOutputVolume ==
    << F("right", 6, "int"), F("skip0", 2, "skip"), F("left", 6, "int"),
       F("skip1", 1, "skip"), F("mute", 1, "bool") >>

PcmOutputVolume ==
    << F("right", 5, "int"), F("skip0", 3, "skip"), F("left", 5, "int"),
       F("skip1", 2, "skip"), F("mute", 1, "bool") >>

RegBoxTransfer ==
    << F("transfer_data", 1, "bool"), F("reset", 1, "bool"),
       F("last_ent_fire_intr", 1, "bool"), F("ioc_intr", 1, "bool"),
       F("fifo_err_intr", 1, "bool"), F("skip0", 3, "skip") >>

RegBoxStatus ==
    << F("transfer_data", 1, "bool"), F("end_of_transfer", 1, "bool"),
       F("last_ent_fire_intr", 1, "bool"), F("ioc_intr", 1, "bool"),
       F("fifo_err_intr", 1, "bool"), F("skip0", 11, "skip") >>

\* The enums' discriminants: the values a setter can store.
PcmChannels == [Two |-> 0, Four |-> 1, Six |-> 2]

PcmOutMode == [SixteenSamples |-> 0, TwentySamples |-> 1]

GlobalControl ==
    << F("interrupts", 1, "bool"), F("cold_reset", 1, "bool"),
       F("warm_reset", 1, "bool"), F("shut_down", 1, "bool"),
       F("skip0", 16, "skip"), F("channels", 2, "PcmChannels"),
       F("pcm_out_mode", 2, "PcmOutMode"), F("skip1", 8, "skip") >>

GlobalStatus ==
    << F("skip0", 20, "skip"), F("channel_caps", 2, "getter"),
       F("sample_caps", 2, "PcmOutMode"), F("skip1", 8, "skip") >>

BufferDescCtl ==
    << F("skip0", 14, "skip"), F("last", 1, "bool"),
       F("fire_interrupt", 1, "bool") >>

RECURSIVE LayoutBits(_)
LayoutBits(L) == IF L = <<>> THEN 0 ELSE Head(L).bits + LayoutBits(Tail(L))

FieldIndex(L, f) == CHOOSE i \in 1 .. Len(L) : L[i].name = f

FieldOffset(L, f) == LayoutBits(SubSeq(L, 1, FieldIndex(L, f) - 1))

FieldBits(L, f) == L[FieldIndex(L, f)].bits

\* T::new(): every bit zero.
BitfieldNew(L) == [i \in 0 .. (LayoutBits(L) - 1) |-> 0]

\* The bit patterns a field's type declares: an enum's discriminants, and for a
\* bool or a number every pattern ("getter" is channel_caps, a PcmChannels
\* with #[skip(setters)]).
Declared(fld) ==
    CASE fld.kind \in {"PcmChannels", "getter"} -> {PcmChannels[v] : v \in DOMAIN PcmChannels}
      [] fld.kind = "PcmOutMode" -> {PcmOutMode[v] : v \in DOMAIN PcmOutMode}
      [] OTHER -> 0 .. ((2 ^ fld.bits) - 1)

\* What a getter gives: the field's value, or the panic "value contains invalid
\* bit pattern" with the offending bits.
Got(v) == [panic |-> FALSE, val |-> v]

InvalidBitPattern(v) == [panic |-> TRUE, val |-> v]

\* A getter: the field's bits as a value of its type; it panics on bits that
\* are no declared discriminant of an enum field.
BitfieldGet(L, s, f) ==
    LET v == NatOfBits(s, FieldOffset(L, f), FieldBits(L, f))
    IN  IF v \in Declared(L[FieldIndex(L, f)]) THEN Got(v) ELSE InvalidBitPattern(v)

\* A setter (set_f / with_f) mutated to write one bit more than the field holds.
BitfieldSetMutantSpill(L, s, f, v) ==
    [i \in DOMAIN s |->
        IF i >= FieldOffset(L, f) /\ i <= FieldOffset(L, f) + FieldBits(L, f)
        THEN BitOf(v, i - FieldOffset(L, f))
        ELSE s[i]]

\* A setter (set_f / with_f): writes the field's bits and no other.
BitfieldSet(L, s, f, v) ==
    [i \in DOMAIN s |->
        IF i >= FieldOffset(L, f) /\ i < FieldOffset(L, f) + FieldBits(L, f)
        THEN BitOf(v, i - FieldOffset(L, f))
        ELSE s[i]]

BoolBit(v) == IF v THEN 1 ELSE 0

GetBool(L, s, f) == BitfieldGet(L, s, f) = Got(1)

WithBool(L, s, f, v) == BitfieldSet(L, s, f, BoolBit(v))

\* From<u8>/From<u16> mutated to read the bits most significant first.
BitfieldFromMutantSwap(L, x) ==
    [i \in 0 .. (LayoutBits(L) - 1) |-> BitOf(x, LayoutBits(L) - 1 - i)]

\* From<u8> / From<u16> for the struct, and Into back.
BitfieldFrom(L, x) == BitsOfNat(x, LayoutBits(L))

BitfieldInto(L, s) == NatOfBits(s, 0, LayoutBits(L))

\* From<u32> for a #[repr(u32)] struct, and Into back.
BitfieldFrom32(r) == BitsOfU32(r)

BitfieldInto32(s) == U32OfBits(s)

(***************************************************************************)
(* The register model on its own: construct a register or read it from     *)
(* hardware, apply setters, convert to the raw integer and back.           *)
(***************************************************************************)
RegTypes ==
    { "MasterOutputVolume", "PcmOutputVolume", "RegBoxTransfer", "RegBoxStatus",
      "GlobalControl", "GlobalStatus", "BufferDescCtl" }

LayoutOf(ty) ==
    CASE ty = "MasterOutputVolume" -> MasterOutputVolume
      [] ty = "PcmOutputVolume" -> PcmOutputVolume
      [] ty = "RegBoxTransfer" -> RegBoxTransfer
      [] ty = "RegBoxStatus" -> RegBoxStatus
      [] ty = "GlobalControl" -> GlobalControl
      [] ty = "GlobalStatus" -> GlobalStatus
      [] ty = "BufferDescCtl" -> BufferDescCtl

\* The struct of type ty from its raw integer (#[repr(uN)]), and back.
FromRaw(ty, raw) ==
    IF LayoutBits(LayoutOf(ty)) = 32
    THEN BitfieldFrom32(raw)
    ELSE BitfieldFrom(LayoutOf(ty), raw)

IntoRaw(ty, s) ==
    IF LayoutBits(LayoutOf(ty)) = 32
    THEN BitfieldInto32(s)
    ELSE BitfieldInto(LayoutOf(ty), s)

\* Raw register values as hardware may present them: all bits clear, all set,
\* and the two alternating patterns (every field and reserved bit takes both values).
RawPatterns == {0, 65535, 43690, 21845}

RawSamples(ty) ==
    IF LayoutBits(LayoutOf(ty)) = 32
    THEN { U32(0, 0), U32(65535, 65535), U32(43690, 21845), U32(21845, 43690) }
    ELSE { x % (2 ^ LayoutBits(LayoutOf(ty))) : x \in RawPatterns }

\* The values a setter accepts for a field: both booleans, each enumerated
\* variant, and for a number its least and greatest values and 1.
SetterValues(fld) ==
    CASE fld.kind = "bool" -> {0, 1}
      [] fld.kind = "PcmChannels" -> {PcmChannels[v] : v \in DOMAIN PcmChannels}
      [] fld.kind = "PcmOutMode" -> {PcmOutMode[v] : v \in DOMAIN PcmOutMode}
      [] fld.kind = "int" -> {0, 1, (2 ^ fld.bits) - 1}
      [] OTHER -> {}

\* The fields with accessors: the skipped ones have none.
NamedFields(L) == {L[i].name : i \in {j \in 1 .. Len(L) : L[j].kind # "skip"}}

Op(name, f) == [op |-> name, f |-> f]

\* T::new(), at the start or once the last value has been converted back.
RegNew(ty) ==
    /\ rOp.op \in {"none", "back"}
    /\ rTy' = ty
    /\ rStruct' = BitfieldNew(LayoutOf(ty))
    /\ rPrev' = BitfieldNew(LayoutOf(ty))
    /\ rRaw' = IntoRaw(ty, BitfieldNew(LayoutOf(ty)))
    /\ rOp' = Op("new", "")
    /\ UNCHANGED driverVars

\* T::from(port.read()): a value read from hardware.
RegFrom(ty, raw) ==
    /\ rOp.op \in {"none", "back"}
    /\ rTy' = ty
    /\ rStruct' = FromRaw(ty, raw)
    /\ rPrev' = FromRaw(ty, raw)
    /\ rRaw' = raw
    /\ rOp' = Op("from", "")
    /\ UNCHANGED driverVars

\* set_f(v) / with_f(v) on field i of the layout; setters chain without limit.
RegSet(i, v) ==
    /\ rOp.op \in {"new", "from", "set"}
    /\ rStruct' = BitfieldSet(LayoutOf(rTy), rStruct, LayoutOf(rTy)[i].name, v)
    /\ rPrev' = rStruct
    /\ rOp' = Op("set", LayoutOf(rTy)[i].name)
    /\ UNCHANGED <<rTy, rRaw>>
    /\ UNCHANGED driverVars

\* uN::from(struct)
RegInto ==
    /\ rOp.op \in {"new", "from", "set"}
    /\ rRaw' = IntoRaw(rTy, rStruct)
    /\ rPrev' = rStruct
    /\ rOp' = Op("into", "")
    /\ UNCHANGED <<rTy, rStruct>>
    /\ UNCHANGED driverVars

\* T::from(raw) of the integer just produced.
RegBack ==
    /\ rOp.op = "into"
    /\ rStruct' = FromRaw(rTy, rRaw)
    /\ rOp' = Op("back", "")
    /\ UNCHANGED <<rTy, rPrev, rRaw>>
    /\ UNCHANGED driverVars

RegIdle ==
    /\ rTy = "RegBoxTransfer"
    /\ rStruct = BitfieldNew(RegBoxTransfer)
    /\ rPrev = BitfieldNew(RegBoxTransfer)
    /\ rRaw = 0
    /\ rOp = Op("none", "")

(***************************************************************************)
(* Byte strings, run-length encoded.                                       *)
(***************************************************************************)
Run(b, n) == [b |-> b, n |-> n]

RECURSIVE RLen(_)
RLen(s) == IF s = <<>> THEN 0 ELSE Head(s).n + RLen(Tail(s))

\* The canonical form: no empty run, no two adjacent runs of one byte.
RECURSIVE RNorm(_)
RNorm(s) ==
    IF s = <<>> THEN <<>>
    ELSE LET h == Head(s)
             t == RNorm(Tail(s))
         IN  IF h.n = 0 THEN t
             ELSE IF t # <<>> /\ t[1].b = h.b
                  THEN <<Run(h.b, h.n + t[1].n)>> \o Tail(t)
                  ELSE <<h>> \o t

RCat(a, b) == RNorm(a \o b)

\* s[k..] and s[..k] (k clamped to the length).
RECURSIVE RDrop(_, _)
RDrop(s, k) ==
    IF k = 0 \/ s = <<>> THEN s
    ELSE IF Head(s).n <= k THEN RDrop(Tail(s), k - Head(s).n)
         ELSE <<Run(Head(s).b, Head(s).n - k)>> \o Tail(s)

RECURSIVE RTake(_, _)
RTake(s, k) ==
    IF k = 0 \/ s = <<>> THEN <<>>
    ELSE IF Head(s).n <= k THEN <<Head(s)>> \o RTake(Tail(s), k - Head(s).n)
         ELSE <<Run(Head(s).b, k)>>

\* s[i], 0 <= i < RLen(s).
RECURSIVE RAt(_, _)
RAt(s, i) == IF i < Head(s).n THEN Head(s).b ELSE RAt(Tail(s), i - Head(s).n)

RZeros(n) == RNorm(<<Run(0, n)>>)

(***************************************************************************)
(* The driver's constants.                                                 *)
(***************************************************************************)
RingEntries == 31

SamplesPerEntry == 65534

BytesPerSample == 2

SampleRate == 44100

\* 0x1F * 0xFFFE * 2: the audio buffer's length and play_audio's cursor step.
Window == RingEntries * SamplesPerEntry * BytesPerSample

\* let off_calc = |ent: u32| 0xFFFE * 2 * ent as u32;
off_calc(ent) == SamplesPerEntry * BytesPerSample * ent

\* super::pci::PciCmd, the PCI command register.
PciCmd ==
    << F("pio", 1, "bool"), F("mmio", 1, "bool"), F("bus_master", 1, "bool"),
       F("skip0", 7, "skip"), F("disable_intrs", 1, "bool"), F("skip1", 5, "skip") >>

(***************************************************************************)
(* The environment: how the device is found, where the allocator puts the  *)
(* buffers, what the caller plays.                                         *)
(***************************************************************************)
\* The registers at power-on: all clear; left dirty by firmware (interrupt
\* enables, reserved bits and stale status set, the engine stopped); or with
\* the engine left running.
HwPowerOn ==
    { [ pci_cmd |-> 0, global_ctl |-> U32(0, 0), mixer_reset |-> 0,
        mixer_master_vol |-> 0, mixer_pcm_vol |-> 0, mixer_sample_rate |-> 0,
        pcm_out_bdl_addr |-> U32(0, 0), pcm_out_bdl_last_ent |-> 0,
        pcm_out_transf_ctl |-> 0, pcm_out_transf_sts |-> 0 ],
      [ pci_cmd |-> 43690, global_ctl |-> U32(65535, 65533), mixer_reset |-> 0,
        mixer_master_vol |-> 32768, mixer_pcm_vol |-> 34824, mixer_sample_rate |-> 48000,
        pcm_out_bdl_addr |-> U32(65535, 65535), pcm_out_bdl_last_ent |-> 255,
        pcm_out_transf_ctl |-> 252, pcm_out_transf_sts |-> 65535 ],
      [ pci_cmd |-> 7, global_ctl |-> U32(0, 2), mixer_reset |-> 0,
        mixer_master_vol |-> 0, mixer_pcm_vol |-> 0, mixer_sample_rate |-> 44100,
        pcm_out_bdl_addr |-> U32(96, 0), pcm_out_bdl_last_ent |-> 30,
        pcm_out_transf_ctl |-> 1, pcm_out_transf_sts |-> 0 ] }

\* Physical addresses (pointer minus PHYS_VIRT_OFFSET) of buf and bdl: low memory;
\* buf ending exactly at 4 GiB; buf starting 64 KiB below 4 GiB.
MemLayouts ==
    { [buf |-> U32(16, 0), bdl |-> U32(96, 0)],
      [buf |-> U32(65474, 124), bdl |-> U32(65472, 1)],
      [buf |-> U32(65535, 0), bdl |-> U32(32, 4096)] }

NoMem == [buf |-> U32(0, 0), bdl |-> U32(0, 0)]

\* The register offsets in the mixer and the bus-master port blocks.
NamRegs == [Reset |-> 0, MasterVolume |-> 2, PcmOutVolume |-> 24, SampleRate |-> 44]

NabmRegs ==
    [ PcmOutBdlAddr |-> 16, PcmOutLastEnt |-> 21, PcmOutStatus |-> 22,
      PcmOutTransferControl |-> 27, GlobalControl |-> 44, GlobalStatus |-> 48 ]

\* What the base-address registers read: an assigned I/O range (bit 0 set),
\* or all ones.
Bar1Values == { U32(0, 53505), U32(65535, 65535) }

Bar0Values == { U32(0, 53249), U32(65535, 65535) }

\* Bounds on the caller's audio: the number of runs, built from these bytes
\* and run lengths (one byte, one byte short of a window, a whole window).
MaxRuns == 2

SampleBytes == {0, 255}

RunLengths == {1, Window - 1, Window}

Canonical(s) == \A i \in 1 .. (Len(s) - 1) : s[i].b # s[i + 1].b

DataInputs ==
    UNION { { s \in [1 .. k -> {Run(b, n) : b \in SampleBytes, n \in RunLengths}] :
                Canonical(s) } : k \in 0 .. MaxRuns }

(***************************************************************************)
(* Port access and the access trace.                                       *)
(***************************************************************************)
Ev(op, reg, val) == [op |-> op, reg |-> reg, val |-> val]

Rd(reg) == Ev("read", reg, regs[reg])

Wr(reg, val) == Ev("write", reg, val)

NewPcs ==
    { "new_pci", "new_ports", "new_alloc", "new_cold", "new_mixer_reset", "new_volume",
      "new_reset", "new_poll", "new_hlt", "new_arm", "new_done" }

PlayPcs ==
    { "play_guard", "play_reset", "play_poll_reset", "play_arm", "play_copy",
      "play_begin", "play_poll_eot", "play_advance", "play_ret" }

(***************************************************************************)
(* The bus-master engine.                                                  *)
(***************************************************************************)
TransfCtl == BitfieldFrom(RegBoxTransfer, regs.pcm_out_transf_ctl)

TransfSts == BitfieldFrom(RegBoxStatus, regs.pcm_out_transf_sts)

\* The reset bit self-clears; the reset stops the engine and clears its status.
HwResetDone ==
    /\ GetBool(RegBoxTransfer, TransfCtl, "reset")
    /\ regs' = [regs EXCEPT
          !.pcm_out_transf_ctl =
              BitfieldInto(RegBoxTransfer,
                  WithBool(RegBoxTransfer,
                      WithBool(RegBoxTransfer, TransfCtl, "reset", FALSE),
                      "transfer_data", FALSE)),
          !.pcm_out_transf_sts =
              BitfieldInto(RegBoxStatus,
                  WithBool(RegBoxStatus, TransfSts, "end_of_transfer", FALSE))]
    /\ UNCHANGED <<pc, mem, buf, bdl, data, off, trace>>
    /\ UNCHANGED regVars

\* A running engine reaches the last valid entry and reports end of transfer.
HwTransferEnd ==
    /\ GetBool(RegBoxTransfer, TransfCtl, "transfer_data")
    /\ ~GetBool(RegBoxTransfer, TransfCtl, "reset")
    /\ ~GetBool(RegBoxStatus, TransfSts, "end_of_transfer")
    /\ regs' = [regs EXCEPT
          !.pcm_out_transf_sts =
              BitfieldInto(RegBoxStatus,
                  WithBool(RegBoxStatus, TransfSts, "end_of_transfer", TRUE))]
    /\ UNCHANGED <<pc, mem, buf, bdl, data, off, trace>>
    /\ UNCHANGED regVars

\* The engine raises or drops its fault and diagnostic flags in transfer-status
\* (last entry fired, interrupt on completion, FIFO error).
HwDiag(v) ==
    /\ regs' = [regs EXCEPT
          !.pcm_out_transf_sts =
              BitfieldInto(RegBoxStatus,
                  WithBool(RegBoxStatus,
                      WithBool(RegBoxStatus,
                          WithBool(RegBoxStatus, TransfSts, "last_ent_fire_intr", v),
                          "ioc_intr", v),
                      "fifo_err_intr", v))]
    /\ UNCHANGED <<pc, mem, buf, bdl, data, off, trace>>
    /\ UNCHANGED regVars

\* Some interrupt reaches the processor: a halted processor resumes.
Interrupt ==
    /\ pc = "new_hlt"
    /\ pc' = "new_poll"
    /\ UNCHANGED <<regs, mem, buf, bdl, data, off, trace>>
    /\ UNCHANGED regVars

(***************************************************************************)
(* Ac97::new.                                                              *)
(***************************************************************************)
\* dev.cfg_write(Command, PciCmd::from(cfg_read(Command)).with_pio(true)
\*     .with_bus_master(true).with_disable_intrs(true))
PciCmdValue(cur) ==
    BitfieldInto(PciCmd,
        WithBool(PciCmd,
            WithBool(PciCmd,
                WithBool(PciCmd, BitfieldFrom(PciCmd, cur), "pio", TRUE),
                "bus_master", TRUE),
            "disable_intrs", TRUE))

NewPciCmd ==
    /\ pc = "new_pci"
    /\ regs' = [regs EXCEPT !.pci_cmd = PciCmdValue(regs.pci_cmd)]
    /\ trace' = trace \o << Ev("cfg_read", "pci_cmd", regs.pci_cmd),
                            Ev("cfg_write", "pci_cmd", PciCmdValue(regs.pci_cmd)) >>
    /\ pc' = "new_ports"
    /\ UNCHANGED <<mem, buf, bdl, data, off>>
    /\ UNCHANGED regVars

\* (dev.cfg_read(BaseAddrN, DWord) as u16) & !1u16
PortBase(bar) == bar.lo - (bar.lo % 2)

\* Whether base + offset exceeds u16::MAX for one of the block's registers: a
\* build with overflow checks panics there, one without wraps.
PortOverflows(base, block) == \E r \in DOMAIN block : base + block[r] > 65535

\* The two base-address registers are read and the ports resolved: BaseAddr1,
\* the bus-master ports, BaseAddr0, the mixer ports.
NewPorts ==
    /\ pc = "new_ports"
    /\ \E b1 \in Bar1Values, b0 \in Bar0Values :
          \/ /\ trace' = trace \o << Ev("cfg_read", "bar1", b1), Ev("cfg_read", "bar0", b0) >>
             /\ pc' = "new_alloc"
          \/ /\ PortOverflows(PortBase(b1), NabmRegs)
             /\ trace' = trace \o << Ev("cfg_read", "bar1", b1) >>
             /\ pc' = "panic"
          \/ /\ ~PortOverflows(PortBase(b1), NabmRegs)
             /\ PortOverflows(PortBase(b0), NamRegs)
             /\ trace' = trace \o << Ev("cfg_read", "bar1", b1), Ev("cfg_read", "bar0", b0) >>
             /\ pc' = "panic"
    /\ UNCHANGED <<regs, mem, buf, bdl, data, off>>
    /\ UNCHANGED regVars

BufferDescriptor(addr, samples, ctl) == [addr |-> addr, samples |-> samples, ctl |-> ctl]

\* for i in 0..0x1F { bdl.push(..) }; bdl.last_mut().unwrap().ctl.set_last(true);
\* the address is added in u32.
BuildBdl(base) ==
    [i \in 1 .. RingEntries |->
        BufferDescriptor(
            U32AddWrap(base, off_calc(i - 1)),
            SamplesPerEntry,
            BitfieldInto(BufferDescCtl,
                IF i = RingEntries
                THEN WithBool(BufferDescCtl, BitfieldNew(BufferDescCtl), "last", TRUE)
                ELSE BitfieldNew(BufferDescCtl)))]

\* Whether some descriptor address exceeds u32::MAX: a build with overflow
\* checks panics there, one without wraps.
BdlOverflows(base) ==
    \E i \in 0 .. (RingEntries - 1) : U32AddOverflows(base, off_calc(i))

\* The allocation mutated to leave out buf.resize(..): the buffer stays empty.
NewAllocMutantNoResize ==
    /\ pc = "new_alloc"
    /\ \E m \in MemLayouts :
          /\ mem' = m
          /\ buf' = <<>>
          /\ bdl' = BuildBdl(m.buf)
          /\ trace' = trace \o << Ev("alloc", "buf", m.buf), Ev("build", "bdl", m.bdl) >>
          /\ pc' = "new_cold"
    /\ UNCHANGED <<regs, data, off>>
    /\ UNCHANGED regVars

\* let mut buf = Vec::new(); buf.resize(0x1F * 0xFFFE * 2, 0); then the ring is built.
NewAlloc ==
    /\ pc = "new_alloc"
    /\ \E m \in MemLayouts :
          /\ mem' = m
          /\ buf' = RZeros(Window)
          /\ \/ /\ bdl' = BuildBdl(m.buf)
                /\ trace' = trace \o << Ev("alloc", "buf", m.buf), Ev("build", "bdl", m.bdl) >>
                /\ pc' = "new_cold"
             \/ /\ BdlOverflows(m.buf)
                /\ bdl' = <<>>
                /\ trace' = trace \o << Ev("alloc", "buf", m.buf) >>
                /\ pc' = "panic"
    /\ UNCHANGED <<regs, data, off>>
    /\ UNCHANGED regVars

\* The cold-reset value mutated to leave out .with_interrupts(false).
ColdResetValueMutantKeepIntr(cur) ==
    BitfieldInto32(WithBool(GlobalControl, BitfieldFrom32(cur), "cold_reset", TRUE))

\* global_ctl.write(GlobalControl::from(global_ctl.read())
\*     .with_cold_reset(true).with_interrupts(false))
ColdResetValue(cur) ==
    BitfieldInto32(
        WithBool(GlobalControl,
            WithBool(GlobalControl, BitfieldFrom32(cur), "cold_reset", TRUE),
            "interrupts", FALSE))

NewColdReset ==
    /\ pc = "new_cold"
    /\ regs' = [regs EXCEPT !.global_ctl = ColdResetValue(regs.global_ctl)]
    /\ trace' = trace \o << Rd("global_ctl"),
                            Wr("global_ctl", ColdResetValue(regs.global_ctl)) >>
    /\ pc' = "new_mixer_reset"
    /\ UNCHANGED <<mem, buf, bdl, data, off>>
    /\ UNCHANGED regVars

\* mixer_reset.write(!0)
NewMixerReset ==
    /\ pc = "new_mixer_reset"
    /\ regs' = [regs EXCEPT !.mixer_reset = 65535]
    /\ trace' = trace \o << Wr("mixer_reset", 65535) >>
    /\ pc' = "new_volume"
    /\ UNCHANGED <<mem, buf, bdl, data, off>>
    /\ UNCHANGED regVars

\* The master volume mutated to leave the left channel as new() made it.
MasterVolumeValueMutantNoLeft ==
    BitfieldInto(MasterOutputVolume,
        WithBool(MasterOutputVolume,
            BitfieldSet(MasterOutputVolume, BitfieldNew(MasterOutputVolume), "right", 63),
            "mute", FALSE))

\* MasterOutputVolume::new().with_right(0x3F).with_left(0x3F).with_mute(false)
MasterVolumeValue ==
    BitfieldInto(MasterOutputVolume,
        WithBool(MasterOutputVolume,
            BitfieldSet(MasterOutputVolume,
                BitfieldSet(MasterOutputVolume, BitfieldNew(MasterOutputVolume), "right", 63),
                "left", 63),
            "mute", FALSE))

\* PcmOutputVolume::new().with_right(0x1F).with_left(0x1F).with_mute(false)
PcmVolumeValue ==
    BitfieldInto(PcmOutputVolume,
        WithBool(PcmOutputVolume,
            BitfieldSet(PcmOutputVolume,
                BitfieldSet(PcmOutputVolume, BitfieldNew(PcmOutputVolume), "right", 31),
                "left", 31),
            "mute", FALSE))

\* The volumes and the sample rate; debug!(.., mixer_sample_rate.read()) reads
\* the register only when the Debug log level is enabled.
NewVolume ==
    /\ pc = "new_volume"
    /\ regs' = [regs EXCEPT !.mixer_master_vol = MasterVolumeValue,
                            !.mixer_pcm_vol = PcmVolumeValue,
                            !.mixer_sample_rate = SampleRate]
    /\ \E debugEnabled \in BOOLEAN :
          trace' = trace \o << Wr("mixer_master_vol", MasterVolumeValue),
                               Wr("mixer_pcm_vol", PcmVolumeValue) >>
                         \o (IF debugEnabled THEN << Rd("mixer_sample_rate") >> ELSE <<>>)
                         \o << Wr("mixer_sample_rate", SampleRate) >>
    /\ pc' = "new_reset"
    /\ UNCHANGED <<mem, buf, bdl, data, off>>
    /\ UNCHANGED regVars

\* RegBoxTransfer::from(pcm_out_transf_ctl.read()).with_reset(true)
ResetValue(cur) ==
    BitfieldInto(RegBoxTransfer,
        WithBool(RegBoxTransfer, BitfieldFrom(RegBoxTransfer, cur), "reset", TRUE))

\* RegBoxTransfer::from(pcm_out_transf_ctl.read()).with_transfer_data(true)
BeginValue(cur) ==
    BitfieldInto(RegBoxTransfer,
        WithBool(RegBoxTransfer, BitfieldFrom(RegBoxTransfer, cur), "transfer_data", TRUE))

\* The reset write, in new and in play_audio.
ResetEngine(next) ==
    /\ regs' = [regs EXCEPT !.pcm_out_transf_ctl = ResetValue(regs.pcm_out_transf_ctl)]
    /\ trace' = trace \o << Rd("pcm_out_transf_ctl"),
                            Wr("pcm_out_transf_ctl", ResetValue(regs.pcm_out_transf_ctl)) >>
    /\ pc' = next
    /\ UNCHANGED <<mem, buf, bdl, data, off>>
    /\ UNCHANGED regVars

NewReset ==
    /\ pc = "new_reset"
    /\ ResetEngine("new_poll")

\* The bring-up poll mutated to go on whatever the reset bit reads.
NewPollMutantNoWait ==
    /\ pc = "new_poll"
    /\ pc' = "new_arm"
    /\ trace' = trace \o << Rd("pcm_out_transf_ctl") >>
    /\ UNCHANGED <<regs, mem, buf, bdl, data, off>>
    /\ UNCHANGED regVars

\* while RegBoxTransfer::from(pcm_out_transf_ctl.read()).reset() { asm!("hlt") }
NewPoll ==
    /\ pc = "new_poll"
    /\ IF GetBool(RegBoxTransfer, TransfCtl, "reset")
       THEN /\ pc' = "new_hlt"
            /\ UNCHANGED trace
       ELSE /\ pc' = "new_arm"
            /\ trace' = trace \o << Rd("pcm_out_transf_ctl") >>
    /\ UNCHANGED <<regs, mem, buf, bdl, data, off>>
    /\ UNCHANGED regVars

\* The last valid entry mutated to the ring's length.
LastEntValueMutantLen == Len(bdl) % 256

\* (bdl.len() - 1) as u8
LastEntValue == (Len(bdl) - 1) % 256

\* (bdl.as_ptr() as usize - PHYS_VIRT_OFFSET) as u32
BdlAddrValue == mem.bdl

\* pcm_out_bdl_addr.write(..); pcm_out_bdl_last_ent.write(..), in new and in play_audio.
ArmBdl(next) ==
    /\ regs' = [regs EXCEPT !.pcm_out_bdl_addr = BdlAddrValue,
                            !.pcm_out_bdl_last_ent = LastEntValue]
    /\ trace' = trace \o << Wr("pcm_out_bdl_addr", BdlAddrValue),
                            Wr("pcm_out_bdl_last_ent", LastEntValue) >>
    /\ pc' = next
    /\ UNCHANGED <<mem, buf, bdl, data, off>>
    /\ UNCHANGED regVars

NewArm ==
    /\ pc = "new_arm"
    /\ ArmBdl("new_done")

\* Self { .. } is returned: the handle exists and play_audio can be called.
NewReturn ==
    /\ pc = "new_done"
    /\ pc' = "idle"
    /\ trace' = <<>>
    /\ UNCHANGED <<regs, mem, buf, bdl, data, off>>
    /\ UNCHANGED regVars

(***************************************************************************)
(* Ac97::play_audio.                                                       *)
(***************************************************************************)
PlayCall(d) ==
    /\ pc = "idle"
    /\ data' = d
    /\ off' = 0
    /\ trace' = <<>>
    /\ pc' = "play_guard"
    /\ UNCHANGED <<regs, mem, buf, bdl>>
    /\ UNCHANGED regVars

\* The loop guard mutated to a post-tested loop's (off <= data.len()).
LoopGuardMutantInclusive == off <= RLen(data)

\* while off < data.len()
LoopGuard == off < RLen(data)

PlayGuard ==
    /\ pc = "play_guard"
    /\ pc' = IF LoopGuard THEN "play_reset" ELSE "play_ret"
    /\ UNCHANGED <<regs, mem, buf, bdl, data, off, trace>>
    /\ UNCHANGED regVars

PlayReset ==
    /\ pc = "play_reset"
    /\ ResetEngine("play_poll_reset")

\* The exit test of the reset poll mutated to leave at once.
ResetPendingMutantNoWait == FALSE

\* RegBoxTransfer::from(self.pcm_out_transf_ctl.read()).reset()
ResetPending == GetBool(RegBoxTransfer, TransfCtl, "reset")

\* while ..reset() { asm!("pause") }
PlayPollReset ==
    /\ pc = "play_poll_reset"
    /\ IF ResetPending
       THEN UNCHANGED <<pc, trace>>
       ELSE /\ pc' = "play_arm"
            /\ trace' = trace \o << Rd("pcm_out_transf_ctl") >>
    /\ UNCHANGED <<regs, mem, buf, bdl, data, off>>
    /\ UNCHANGED regVars

PlayArm ==
    /\ pc = "play_arm"
    /\ ArmBdl("play_copy")

\* The copy without .chain(repeat(&0)): zip stops at the end of data and the
\* rest of the buffer keeps what it held.
CopyWindowMutantNoPad(b, d, o) ==
    RCat(RTake(RDrop(d, o), RLen(b)), RDrop(b, RLen(RTake(RDrop(d, o), RLen(b)))))

\* The copy mutated to replace the buffer by the rest of the input
\* (buf = data[off..].to_vec()): the buffer takes the input's length.
CopyWindowMutantReplace(b, d, o) == RDrop(d, o)

\* for (a, b) in buf.iter_mut().zip(data[off..].iter().chain(repeat(&0))) { *a = *b }
\* every byte of buf takes the next byte of data[off..], or 0 once that has run out.
CopyWindow(b, d, o) ==
    RCat(RTake(RDrop(d, o), RLen(b)),
         RZeros(RLen(b) - RLen(RTake(RDrop(d, o), RLen(b)))))

PlayCopy ==
    /\ pc = "play_copy"
    /\ buf' = CopyWindow(buf, data, off)
    /\ trace' = trace \o << Ev("copy", "buf", off) >>
    /\ pc' = "play_begin"
    /\ UNCHANGED <<regs, mem, bdl, data, off>>
    /\ UNCHANGED regVars

PlayBegin ==
    /\ pc = "play_begin"
    /\ regs' = [regs EXCEPT !.pcm_out_transf_ctl = BeginValue(regs.pcm_out_transf_ctl)]
    /\ trace' = trace \o << Rd("pcm_out_transf_ctl"),
                            Wr("pcm_out_transf_ctl", BeginValue(regs.pcm_out_transf_ctl)) >>
    /\ pc' = "play_poll_eot"
    /\ UNCHANGED <<mem, buf, bdl, data, off>>
    /\ UNCHANGED regVars

\* The exit test of the completion poll mutated to leave at once.
EndOfTransferMutantNoWait == TRUE

\* The exit test of the completion poll mutated to give up on a FIFO error.
EndOfTransferMutantFifoErr ==
    \/ GetBool(RegBoxStatus, TransfSts, "end_of_transfer")
    \/ GetBool(RegBoxStatus, TransfSts, "fifo_err_intr")

\* RegBoxStatus::from(self.pcm_out_transf_sts.read()).end_of_transfer()
EndOfTransfer == GetBool(RegBoxStatus, TransfSts, "end_of_transfer")

\* while !..end_of_transfer() { asm!("pause") }
PlayPollEot ==
    /\ pc = "play_poll_eot"
    /\ IF EndOfTransfer
       THEN /\ pc' = "play_advance"
            /\ trace' = trace \o << Rd("pcm_out_transf_sts") >>
       ELSE UNCHANGED <<pc, trace>>
    /\ UNCHANGED <<regs, mem, buf, bdl, data, off>>
    /\ UNCHANGED regVars

\* The cursor step mutated to stay in place.
NextOffMutantStuck == off

\* off += 0x1F * 0xFFFE * 2
NextOff == off + Window

PlayAdvance ==
    /\ pc = "play_advance"
    /\ off' = NextOff
    /\ trace' = trace \o << Ev("advance", "off", NextOff) >>
    /\ pc' = "play_guard"
    /\ UNCHANGED <<regs, mem, buf, bdl, data>>
    /\ UNCHANGED regVars

PlayReturn ==
    /\ pc = "play_ret"
    /\ pc' = "idle"
    /\ data' = <<>>
    /\ off' = 0
    /\ trace' = <<>>
    /\ UNCHANGED <<regs, mem, buf, bdl>>
    /\ UNCHANGED regVars

(***************************************************************************)
(* The specifications.                                                     *)
(***************************************************************************)
Init ==
    /\ pc = "new_pci"
    /\ regs \in HwPowerOn
    /\ mem = NoMem
    /\ buf = <<>>
    /\ bdl = <<>>
    /\ data = <<>>
    /\ off = 0
    /\ trace = <<>>
    /\ RegIdle

Driver ==
    \/ NewPciCmd \/ NewPorts \/ NewAlloc \/ NewColdReset \/ NewMixerReset
    \/ NewVolume \/ NewReset \/ NewPoll \/ NewArm \/ NewReturn
    \/ \E d \in DataInputs : PlayCall(d)
    \/ PlayGuard \/ PlayReset \/ PlayPollReset \/ PlayArm \/ PlayCopy
    \/ PlayBegin \/ PlayPollEot \/ PlayAdvance \/ PlayReturn

Next == Driver \/ HwResetDone \/ HwTransferEnd \/ Interrupt

Spec == Init /\ [][Next]_vars

\* The driver's thread keeps running and the engine answers: a pending reset
\* completes and a started transfer ends.
FairSpec ==
    /\ Spec
    /\ WF_vars(Driver)
    /\ WF_vars(HwResetDone)
    /\ WF_vars(HwTransferEnd)

\* The driver against an engine that also raises and drops its diagnostic flags.
NextDiag == Next \/ \E v \in BOOLEAN : HwDiag(v)

SpecDiag == Init /\ [][NextDiag]_vars

\* The register model alone.
InitReg ==
    /\ pc = "idle"
    /\ regs \in {r \in HwPowerOn : r.pci_cmd = 0}
    /\ mem = NoMem
    /\ buf = <<>>
    /\ bdl = <<>>
    /\ data = <<>>
    /\ off = 0
    /\ trace = <<>>
    /\ RegIdle

NextReg ==
    \/ \E ty \in RegTypes : RegNew(ty)
    \/ \E ty \in RegTypes : \E raw \in RawSamples(ty) : RegFrom(ty, raw)
    \/ \E i \in 1 .. Len(LayoutOf(rTy)) :
          \E v \in SetterValues(LayoutOf(rTy)[i]) : RegSet(i, v)
    \/ RegInto
    \/ RegBack

SpecReg == InitReg /\ [][NextReg]_vars

(***************************************************************************)
(* Properties of play_audio.                                               *)
(***************************************************************************)
CtlOf(e) == BitfieldFrom(RegBoxTransfer, e.val)

IsCtlWrite(e) == e.op = "write" /\ e.reg = "pcm_out_transf_ctl"

IsResetWrite(e) == IsCtlWrite(e) /\ GetBool(RegBoxTransfer, CtlOf(e), "reset")

IsBeginWrite(e) ==
    /\ IsCtlWrite(e)
    /\ GetBool(RegBoxTransfer, CtlOf(e), "transfer_data")
    /\ ~GetBool(RegBoxTransfer, CtlOf(e), "reset")

IsEotRead(e) ==
    /\ e.op = "read"
    /\ e.reg = "pcm_out_transf_sts"
    /\ GetBool(RegBoxStatus, BitfieldFrom(RegBoxStatus, e.val), "end_of_transfer")

Count(P(_), t) == Cardinality({p \in 1 .. Len(t) : P(t[p])})

\* The bytes of the window the current iteration plays: data[off ..] cut to a window.
RealBytes == Min(Window, RLen(data) - off)

\* Positions of the buffer around the end of the real bytes and at both ends.
Probes ==
    {j \in {0, 1, RealBytes - 1, RealBytes, RealBytes + 1, Window - 2, Window - 1} :
        j >= 0 /\ j < Window}

\* C1: when play_audio writes the begin-transfer bit in iteration k, the audio
\* buffer holds data[k*W .. min((k+1)*W, n)) followed by zero bytes up to length W;
\* nothing of an earlier window is left in the tail of a short final window.
C1_BufferHoldsWindow ==
    pc \in {"play_begin", "play_poll_eot"} =>
        LET k == off \div Window
        IN  /\ off = k * Window
            /\ RLen(buf) = Window
            /\ RTake(buf, RealBytes) = RTake(RDrop(data, k * Window), RealBytes)
            /\ RDrop(buf, RealBytes) = RZeros(Window - RealBytes)
            /\ \A j \in Probes :
                  RAt(buf, j) = IF j < RealBytes THEN RAt(data, k * Window + j) ELSE 0

\* An input of W + 1 bytes (W zero bytes, then 0xFF): the second transfer is
\* started on one real byte followed by W - 1 zero bytes.
C1_Witness ==
    /\ pc = "play_poll_eot"
    /\ data = << Run(0, Window), Run(255, 1) >>
    /\ off = Window
    /\ buf = << Run(255, 1), Run(0, Window - 1) >>

CeilDiv(n, w) == (n + w - 1) \div w

\* C2: a play_audio call that returns has made exactly ceil(n / W) cycles: that
\* many reset writes, re-arms, copies, begin-transfer writes and completed polls;
\* one for n = W, n / W for an exact multiple.
C2_CyclesPerCall ==
    pc = "play_ret" =>
        LET c == CeilDiv(RLen(data), Window)
            IsArm(e) == e.op = "write" /\ e.reg = "pcm_out_bdl_last_ent"
            IsCopy(e) == e.op = "copy"
        IN  /\ Count(IsBeginWrite, trace) = c
            /\ Count(IsResetWrite, trace) = c
            /\ Count(IsArm, trace) = c
            /\ Count(IsCopy, trace) = c
            /\ Count(IsEotRead, trace) = c
            /\ (RLen(data) = Window => c = 1)
            /\ (RLen(data) % Window = 0 => c = RLen(data) \div Window)

\* A call on exactly two windows has returned after two cycles.
C2_Witness ==
    /\ pc = "play_ret"
    /\ RLen(data) = 2 * Window
    /\ Count(IsBeginWrite, trace) = 2

\* C3: play_audio on a zero-length input leaves at once: no step of the call
\* reads or writes a register, the loop body is never entered and the audio
\* buffer is unchanged.
C3_EmptyInputNoAccess ==
    [][(pc' \in PlayPcs /\ RLen(data') = 0) =>
          /\ pc' \in {"play_guard", "play_ret"}
          /\ trace' = <<>>
          /\ buf' = buf
          /\ (pc' # pc => regs' = regs)]_vars

\* A call on the empty input has reached its return; the buffer still holds
\* what an earlier call played.
C3_Witness ==
    /\ pc = "play_ret"
    /\ data = <<>>
    /\ trace = <<>>
    /\ buf = << Run(255, 1), Run(0, Window - 1) >>

\* The ten accesses of one iteration, in order; step s of the cycle fits event e.
CycleStep(s, e) ==
    CASE s = 1 -> e.op = "read" /\ e.reg = "pcm_out_transf_ctl"
      [] s = 2 -> IsResetWrite(e)
      [] s = 3 -> /\ e.op = "read" /\ e.reg = "pcm_out_transf_ctl"
                  /\ ~GetBool(RegBoxTransfer, CtlOf(e), "reset")
      [] s = 4 -> e.op = "write" /\ e.reg = "pcm_out_bdl_addr"
      [] s = 5 -> e.op = "write" /\ e.reg = "pcm_out_bdl_last_ent"
      [] s = 6 -> e.op = "copy"
      [] s = 7 -> e.op = "read" /\ e.reg = "pcm_out_transf_ctl"
      [] s = 8 -> IsBeginWrite(e)
      [] s = 9 -> IsEotRead(e)
      [] s = 10 -> e.op = "advance"

\* How many steps of the current cycle are behind the driver at each position.
CycleDone ==
    [ play_guard |-> {0}, play_reset |-> {0}, play_poll_reset |-> {2}, play_arm |-> {3},
      play_copy |-> {5}, play_begin |-> {6}, play_poll_eot |-> {8}, play_advance |-> {9},
      play_ret |-> {0} ]

\* C4: within every iteration the accesses come in this order and no other: reset
\* write, read showing reset clear, BDL base then last valid entry, the copy, the
\* begin-transfer write, a later status read showing end of transfer, the advance.
C4_IterationOrder ==
    pc \in PlayPcs =>
        /\ \A p \in 1 .. Len(trace) : CycleStep(((p - 1) % 10) + 1, trace[p])
        /\ (Len(trace) % 10) \in CycleDone[pc]

\* Two whole iterations have been made.
C4_Witness ==
    /\ pc = "play_guard"
    /\ Len(trace) = 2 * 10
    /\ off = 2 * Window

(***************************************************************************)
(* Properties of bring-up.                                                 *)
(***************************************************************************)
\* The hardware-visible accesses of a trace: all but the allocation and the
\* building of the ring, which touch memory only.
RECURSIVE HwVisible(_)
HwVisible(t) ==
    IF t = <<>> THEN <<>>
    ELSE IF Head(t).op \in {"alloc", "build"} THEN HwVisible(Tail(t))
         ELSE <<Head(t)>> \o HwVisible(Tail(t))

\* The read of the sample rate that debug!(..) makes when logging is enabled.
IsLogRead(e) == e.op = "read" /\ e.reg = "mixer_sample_rate"

RECURSIVE SansLogRead(_)
SansLogRead(t) ==
    IF t = <<>> THEN <<>>
    ELSE IF IsLogRead(Head(t)) THEN SansLogRead(Tail(t))
         ELSE <<Head(t)>> \o SansLogRead(Tail(t))

\* The fifteen hardware-visible accesses bring-up always makes; step s fits event e.
BringUpStep(s, e) ==
    CASE s = 1 -> e.op = "cfg_read" /\ e.reg = "pci_cmd"
      [] s = 2 -> /\ e.op = "cfg_write" /\ e.reg = "pci_cmd"
                  /\ GetBool(PciCmd, BitfieldFrom(PciCmd, e.val), "pio")
                  /\ GetBool(PciCmd, BitfieldFrom(PciCmd, e.val), "bus_master")
                  /\ GetBool(PciCmd, BitfieldFrom(PciCmd, e.val), "disable_intrs")
      [] s = 3 -> e.op = "cfg_read" /\ e.reg = "bar1"
      [] s = 4 -> e.op = "cfg_read" /\ e.reg = "bar0"
      [] s = 5 -> e.op = "read" /\ e.reg = "global_ctl"
      [] s = 6 -> /\ e.op = "write" /\ e.reg = "global_ctl"
                  /\ GetBool(GlobalControl, BitfieldFrom32(e.val), "cold_reset")
      [] s = 7 -> e.op = "write" /\ e.reg = "mixer_reset"
      [] s = 8 -> e.op = "write" /\ e.reg = "mixer_master_vol"
      [] s = 9 -> e.op = "write" /\ e.reg = "mixer_pcm_vol"
      [] s = 10 -> e.op = "write" /\ e.reg = "mixer_sample_rate"
      [] s = 11 -> e.op = "read" /\ e.reg = "pcm_out_transf_ctl"
      [] s = 12 -> IsResetWrite(e)
      [] s = 13 -> /\ e.op = "read" /\ e.reg = "pcm_out_transf_ctl"
                   /\ ~GetBool(RegBoxTransfer, CtlOf(e), "reset")
      [] s = 14 -> e.op = "write" /\ e.reg = "pcm_out_bdl_addr"
      [] s = 15 -> e.op = "write" /\ e.reg = "pcm_out_bdl_last_ent"

\* C5: bring-up makes its hardware-visible accesses in the order of the spec: the
\* PCI command write before any port access, then cold reset, mixer reset, master
\* volume, PCM volume, sample rate, the engine reset and its poll, and only after
\* the poll has read the reset bit clear the BDL base and last-valid-entry writes.
\* The one other access, the logged read of the sample rate, comes between the
\* PCM volume write and the sample-rate write.
C5_BringUpOrder ==
    pc \in NewPcs \cup {"panic"} =>
        LET h == HwVisible(trace)
            t == SansLogRead(h)
        IN  /\ Len(t) <= 15
            /\ \A p \in 1 .. Len(t) : BringUpStep(p, t[p])
            /\ (pc = "new_done" => Len(t) = 15)
            /\ (pc = "new_arm" => Len(t) = 13)
            /\ Len(h) <= Len(t) + 1
            /\ \A p \in 1 .. Len(h) :
                  IsLogRead(h[p]) =>
                      /\ p > 1
                      /\ p < Len(h)
                      /\ BringUpStep(9, h[p - 1])
                      /\ BringUpStep(10, h[p + 1])

\* Bring-up has ended on a device found dirty: the reset was polled, then the
\* ring was armed.
C5_Witness ==
    /\ pc = "new_done"
    /\ Len(HwVisible(trace)) = 16
    /\ regs.pci_cmd = PciCmdValue(43690)

Constructed == pc \in {"idle"} \cup PlayPcs

\* C6: after construction the ring has exactly 31 entries, entry i has address
\* base + i * 0xFFFE * 2 and sample count 0xFFFE, and only entry 30 is `last`.
C6_RingLayout ==
    Constructed =>
        /\ Len(bdl) = RingEntries
        /\ \A i \in 0 .. (RingEntries - 1) :
              /\ ~U32AddOverflows(mem.buf, off_calc(i))
              /\ bdl[i + 1].addr = U32AddWrap(mem.buf, off_calc(i))
              /\ bdl[i + 1].samples = SamplesPerEntry
              /\ GetBool(BufferDescCtl, BitfieldFrom(BufferDescCtl, bdl[i + 1].ctl), "last")
                    = (i = RingEntries - 1)

\* C7: every write to the last-valid-entry register carries 30 and every write to
\* the BDL base-address register carries the ring's physical address, at bring-up
\* and in every iteration of every play_audio call.
C7_ArmValues ==
    \A p \in 1 .. Len(trace) :
        /\ (trace[p].op = "write" /\ trace[p].reg = "pcm_out_bdl_last_ent"
               => trace[p].val = 30)
        /\ (trace[p].op = "write" /\ trace[p].reg = "pcm_out_bdl_addr"
               => trace[p].val = mem.bdl)

\* The ring has been re-armed in the second iteration of a call.
C7_Witness ==
    /\ pc = "play_copy"
    /\ off = Window
    /\ trace[Len(trace)] = Wr("pcm_out_bdl_last_ent", 30)
    /\ trace[Len(trace) - 1] = Wr("pcm_out_bdl_addr", mem.bdl)
    /\ regs.pcm_out_bdl_last_ent = 30

\* C10: with hardware that completes every reset and every started transfer, a
\* play_audio call eventually returns; each iteration moves the cursor forward by
\* one whole window, also on a short final window.
C10_PlayReturns ==
    /\ [][(pc = "play_advance" /\ pc' = "play_guard") => off' = off + Window]_vars
    /\ (pc \in PlayPcs) ~> (pc = "idle")

\* A call on one byte more than a window has advanced twice and is about to return.
C10_Witness ==
    /\ pc = "play_ret"
    /\ RLen(data) = Window + 1
    /\ off = 2 * Window

\* The reset bit of transfer-control and the end-of-transfer bit of transfer-status
\* in a register file.
ResetBitOf(r) ==
    GetBool(RegBoxTransfer, BitfieldFrom(RegBoxTransfer, r.pcm_out_transf_ctl), "reset")

EotBitOf(r) ==
    GetBool(RegBoxStatus, BitfieldFrom(RegBoxStatus, r.pcm_out_transf_sts), "end_of_transfer")

\* C11: there is no error outcome and no timeout. While the reset bit stays set
\* during the reset poll, or the end-of-transfer bit stays clear during the
\* completion poll, play_audio stays in that poll: it does not return, reaches
\* no other state, writes no register and does not move the cursor.
C11_HangsWithoutTimeout ==
    [][ ( \/ /\ pc = "play_poll_reset"
              /\ ResetBitOf(regs)
              /\ ResetBitOf(regs')
           \/ /\ pc = "play_poll_eot"
              /\ ~EotBitOf(regs)
              /\ ~EotBitOf(regs') )
        => /\ pc' = pc
           /\ regs' = regs
           /\ off' = off
           /\ trace' = trace
           /\ buf' = buf
           /\ bdl' = bdl ]_vars

\* The second window of a call has been started and the engine has not yet
\* reported the end of the transfer.
C11_Witness ==
    /\ pc = "play_poll_eot"
    /\ ~EotBitOf(regs)
    /\ off = Window
    /\ RLen(data) = Window + 1

MixerRegs == {"mixer_reset", "mixer_master_vol", "mixer_pcm_vol", "mixer_sample_rate"}

WritesTo(reg) == {p \in 1 .. Len(trace) : trace[p].op = "write" /\ trace[p].reg = reg}

\* C13: bring-up writes the master volume with left = right = 0x3F and the PCM
\* volume with left = right = 0x1F, mute and reserved bits clear, and writes 44100
\* to the sample-rate register whatever it held; play_audio writes no mixer
\* register, so the three registers keep these values.
C13_MixerProgramming ==
    /\ pc = "new_done" =>
          /\ \A p \in WritesTo("mixer_master_vol") : trace[p].val = 16191
          /\ \A p \in WritesTo("mixer_pcm_vol") : trace[p].val = 7967
          /\ \A p \in WritesTo("mixer_sample_rate") : trace[p].val = 44100
          /\ Cardinality(WritesTo("mixer_master_vol")) = 1
          /\ Cardinality(WritesTo("mixer_pcm_vol")) = 1
          /\ Cardinality(WritesTo("mixer_sample_rate")) = 1
    /\ pc \in PlayPcs => \A reg \in MixerRegs : WritesTo(reg) = {}
    /\ Constructed =>
          LET mv == BitfieldFrom(MasterOutputVolume, regs.mixer_master_vol)
              pv == BitfieldFrom(PcmOutputVolume, regs.mixer_pcm_vol)
          IN  /\ BitfieldGet(MasterOutputVolume, mv, "left") = Got(63)
              /\ BitfieldGet(MasterOutputVolume, mv, "right") = Got(63)
              /\ ~GetBool(MasterOutputVolume, mv, "mute")
              /\ regs.mixer_master_vol = 63 + 63 * 256
              /\ BitfieldGet(PcmOutputVolume, pv, "left") = Got(31)
              /\ BitfieldGet(PcmOutputVolume, pv, "right") = Got(31)
              /\ ~GetBool(PcmOutputVolume, pv, "mute")
              /\ regs.mixer_pcm_vol = 31 + 31 * 256
              /\ regs.mixer_sample_rate = 44100

\* A call has played two windows on a device whose sample-rate register held
\* 48000 and whose volumes were muted when bring-up began.
C13_Witness ==
    /\ pc = "play_ret"
    /\ off = 2 * Window
    /\ regs.mixer_sample_rate = 44100
    /\ regs.mixer_master_vol = 16191
    /\ BitOf(regs.pci_cmd, 15) = 1

\* The position in the trace of the first access of this kind, 0 if there is none.
FirstPos(op, reg) ==
    LET ps == {p \in 1 .. Len(trace) : trace[p].op = op /\ trace[p].reg = reg}
    IN  IF ps = {} THEN 0 ELSE CHOOSE p \in ps : \A q \in ps : p <= q

\* C14 as claimed: the buffer is allocated and the ring built after the
\* transfer-engine reset has been seen complete and before the BDL registers are
\* written, not before the cold reset or the mixer programming.
C14_AllocIsStep7 ==
    pc = "new_done" =>
        /\ FirstPos("alloc", "buf") > FirstPos("read", "pcm_out_transf_ctl")
        /\ FirstPos("alloc", "buf") > FirstPos("write", "pcm_out_transf_ctl")
        /\ FirstPos("alloc", "buf") > FirstPos("write", "global_ctl")
        /\ FirstPos("alloc", "buf") > FirstPos("write", "mixer_sample_rate")
        /\ FirstPos("build", "bdl") > FirstPos("alloc", "buf")
        /\ FirstPos("build", "bdl") < FirstPos("write", "pcm_out_bdl_addr")

\* C14, amended: the buffer is allocated zero-filled and the ring built right
\* after the base-address registers are read and before the first port access
\* (the cold reset); they exist unchanged through the resets and the mixer
\* programming, and the BDL registers are written after them.
C14_AllocBeforeColdReset ==
    /\ pc = "new_done" =>
          /\ FirstPos("alloc", "buf") = FirstPos("cfg_read", "bar0") + 1
          /\ FirstPos("build", "bdl") = FirstPos("alloc", "buf") + 1
          /\ FirstPos("read", "global_ctl") = FirstPos("build", "bdl") + 1
          /\ FirstPos("build", "bdl") < FirstPos("write", "mixer_reset")
          /\ FirstPos("build", "bdl") < FirstPos("write", "pcm_out_transf_ctl")
          /\ FirstPos("build", "bdl") < FirstPos("write", "pcm_out_bdl_addr")
    /\ pc \in {"new_cold", "new_mixer_reset", "new_volume", "new_reset", "new_poll",
               "new_hlt", "new_arm", "new_done"} =>
          /\ buf = RZeros(Window)
          /\ Len(bdl) = RingEntries
          /\ FirstPos("alloc", "buf") > 0

\* Bring-up is about to issue the cold reset: no port has been accessed yet and
\* the zero-filled buffer and the ring are there.
C14_Witness ==
    /\ pc = "new_cold"
    /\ RLen(buf) = Window
    /\ Len(bdl) = RingEntries
    /\ FirstPos("build", "bdl") = Len(trace)
    /\ FirstPos("read", "global_ctl") = 0

\* C15: the bring-up wait for the engine reset is a busy-wait: the processor is
\* never stopped waiting for an interrupt, so once the reset bit is clear the
\* wait is left without any other event.
C15_BringUpBusyWait ==
    ~(pc = "new_hlt" /\ ~ResetBitOf(regs))

\* C16: play_audio writes only the transfer-control, BDL base-address and
\* last-valid-entry registers and the bytes of the audio buffer: from construction
\* on, no step changes the descriptor ring, the buffer's length, a mixer register,
\* global control or the PCI command register.
C16_PlayFrame ==
    [][ Constructed =>
          /\ bdl' = bdl
          /\ RLen(buf') = RLen(buf)
          /\ \A reg \in MixerRegs \cup {"global_ctl", "pci_cmd"} : regs'[reg] = regs[reg]
          /\ \A p \in 1 .. Len(trace') :
                trace'[p].op \in {"write", "cfg_write"} =>
                    trace'[p].reg \in {"pcm_out_transf_ctl", "pcm_out_bdl_addr",
                                       "pcm_out_bdl_last_ent"} ]_vars

\* A call has returned and left played bytes in the buffer; the ring and the
\* buffer's length are as bring-up made them.
C16_Witness ==
    /\ pc = "idle"
    /\ buf # RZeros(Window)
    /\ RLen(buf) = Window
    /\ Len(bdl) = RingEntries
    /\ bdl = BuildBdl(mem.buf)

\* Order of two 32-bit addresses.
U32Leq(a, b) == a.hi < b.hi \/ (a.hi = b.hi /\ a.lo <= b.lo)

\* Whether [addr, addr + n) ends at or below 2^32.
FitsU32(addr, n) == n = 0 \/ ~U32AddOverflows(addr, n - 1)

\* C17: the descriptors tile the audio buffer: it is 31 * 0xFFFE * 2 bytes long
\* and the ranges [addr_i, addr_i + 2 * samples_i) start at the buffer's base,
\* follow one another in increasing order without gap or overlap and all lie
\* inside the buffer, without any address wrapping modulo 2^32.
C17_RingTilesBuffer ==
    Constructed =>
        /\ RLen(buf) = RingEntries * SamplesPerEntry * BytesPerSample
        /\ Len(bdl) = RingEntries
        /\ bdl[1].addr = mem.buf
        /\ \A i \in 1 .. RingEntries :
              /\ U32Leq(mem.buf, bdl[i].addr)
              /\ FitsU32(bdl[i].addr, BytesPerSample * bdl[i].samples)
              /\ i < RingEntries =>
                    /\ bdl[i + 1].addr =
                          U32AddWrap(bdl[i].addr, BytesPerSample * bdl[i].samples)
                    /\ U32Leq(bdl[i].addr, bdl[i + 1].addr)
                    /\ bdl[i].addr # bdl[i + 1].addr
              /\ i = RingEntries =>
                    U32AddWrap(bdl[i].addr, BytesPerSample * bdl[i].samples)
                        = U32AddWrap(mem.buf, RLen(buf))
        /\ \A i, j \in 1 .. RingEntries :
              i < j => /\ U32Leq(bdl[i].addr, bdl[j].addr)
                       /\ bdl[i].addr # bdl[j].addr

\* What the buffer holds once window j of the input has been copied.
WindowImage(j) ==
    RCat(RTake(RDrop(data, j * Window), Window),
         RZeros(Window - RLen(RTake(RDrop(data, j * Window), Window))))

\* C18: play_audio looks at no fault or diagnostic bit: whatever the other bits
\* of transfer-control and transfer-status read, the polls it leaves, the cursor,
\* the buffer contents and the number of transfers are determined by the input
\* and by how far the call has come, so two runs on the same input agree on them,
\* and the call returns after ceil(n / W) transfers.
C18_DiagnosticBitsIgnored ==
    pc \in PlayPcs =>
        LET k == Len(trace) \div 10
            s == Len(trace) % 10
        IN  /\ s \in CycleDone[pc]
            /\ off = k * Window
            /\ pc = "play_reset" => off < RLen(data)
            /\ pc = "play_ret" => /\ off >= RLen(data)
                                  /\ k = CeilDiv(RLen(data), Window)
                                  /\ Count(IsBeginWrite, trace) = k
            /\ \A p \in 1 .. Len(trace) :
                  /\ CycleStep(((p - 1) % 10) + 1, trace[p])
                  /\ trace[p].op = "copy" => trace[p].val = ((p - 1) \div 10) * Window
                  /\ trace[p].op = "advance" => trace[p].val = (((p - 1) \div 10) + 1) * Window
            /\ s >= 6 => buf = WindowImage(k)
            /\ (s < 6 /\ k >= 1) => buf = WindowImage(k - 1)

\* The second window is being transferred; the status register reads FIFO error
\* and last-entry-fired, and end of transfer is not yet set.
C18_Witness ==
    /\ pc = "play_poll_eot"
    /\ off = Window
    /\ ~EotBitOf(regs)
    /\ GetBool(RegBoxStatus, TransfSts, "fifo_err_intr")
    /\ GetBool(RegBoxStatus, TransfSts, "last_ent_fire_intr")
    /\ regs.pci_cmd = 1029

\* C19: the driver never enables interrupt generation. The PCI command write has
\* the interrupt-disable bit set; the cold-reset write to global control has the
\* interrupts bit clear and cold_reset set, every other bit as just read; no
\* descriptor ever has fire_interrupt set; and a write to transfer-control sets no
\* interrupt-enable bit that was clear in the value just read.
C19_NoInterruptEnable ==
    /\ \A i \in 1 .. Len(bdl) :
          ~GetBool(BufferDescCtl, BitfieldFrom(BufferDescCtl, bdl[i].ctl), "fire_interrupt")
    /\ \A p \in 1 .. Len(trace) :
          /\ (trace[p].op = "cfg_write" /\ trace[p].reg = "pci_cmd") =>
                GetBool(PciCmd, BitfieldFrom(PciCmd, trace[p].val), "disable_intrs")
          /\ (trace[p].op = "write" /\ trace[p].reg = "global_ctl") =>
                /\ p > 1
                /\ trace[p - 1].op = "read"
                /\ trace[p - 1].reg = "global_ctl"
                /\ LET w == BitfieldFrom32(trace[p].val)
                       r == BitfieldFrom32(trace[p - 1].val)
                   IN  /\ ~GetBool(GlobalControl, w, "interrupts")
                       /\ GetBool(GlobalControl, w, "cold_reset")
                       /\ \A i \in DOMAIN w :
                             i \notin { FieldOffset(GlobalControl, "interrupts"),
                                        FieldOffset(GlobalControl, "cold_reset") }
                                 => w[i] = r[i]
          /\ IsCtlWrite(trace[p]) =>
                /\ p > 1
                /\ trace[p - 1].op = "read"
                /\ trace[p - 1].reg = "pcm_out_transf_ctl"
                /\ \A f \in {"last_ent_fire_intr", "ioc_intr", "fifo_err_intr"} :
                      GetBool(RegBoxTransfer, CtlOf(trace[p]), f) =>
                          GetBool(RegBoxTransfer, CtlOf(trace[p - 1]), f)

\* Bring-up found global control with the interrupts bit (and every bit but
\* cold_reset) set and has just written it back with interrupts clear.
C19_Witness ==
    /\ pc = "new_mixer_reset"
    /\ trace[Len(trace) - 1] = Ev("read", "global_ctl", U32(65535, 65533))
    /\ trace[Len(trace)] = Ev("write", "global_ctl", U32(65535, 65534))
    /\ Len(bdl) = RingEntries

\* C20: the driver never writes transfer-control with the reset bit and the
\* begin-transfer bit both set: a reset is written with the transfer stopped and
\* a begin-transfer with the reset bit clear.
C20_NoResetWhileRunning ==
    \A p \in 1 .. Len(trace) :
        IsCtlWrite(trace[p]) =>
            ~( /\ GetBool(RegBoxTransfer, CtlOf(trace[p]), "reset")
               /\ GetBool(RegBoxTransfer, CtlOf(trace[p]), "transfer_data") )

(***************************************************************************)
(* Properties of the register model.                                       *)
(***************************************************************************)
\* C8: for every register type and every combination of field values, the struct
\* converted to its raw integer and back has the same value in every field.
C8_RoundTrip ==
    rOp.op = "back" =>
        /\ \A f \in NamedFields(LayoutOf(rTy)) :
              BitfieldGet(LayoutOf(rTy), rStruct, f) = BitfieldGet(LayoutOf(rTy), rPrev, f)
        /\ rStruct = rPrev

\* A master volume with both channels at their maximum went through the raw
\* integer and back.
C8_Witness ==
    /\ rOp.op = "back"
    /\ rTy = "MasterOutputVolume"
    /\ BitfieldGet(MasterOutputVolume, rPrev, "left") = Got(63)
    /\ BitfieldGet(MasterOutputVolume, rPrev, "right") = Got(63)
    /\ rRaw = 16191

\* C9: a setter changes only the bits of its field: every other field and every
\* reserved bit keeps its value, be it zero from new() or read from hardware.
C9_SetterFrame ==
    /\ rOp.op = "set" =>
          LET L == LayoutOf(rTy)
              lo == FieldOffset(L, rOp.f)
              w == FieldBits(L, rOp.f)
          IN  /\ \A i \in DOMAIN rStruct : (i < lo \/ i >= lo + w) => rStruct[i] = rPrev[i]
              /\ \A j \in 1 .. Len(L) :
                    L[j].name # rOp.f =>
                        BitfieldGet(L, rStruct, L[j].name) = BitfieldGet(L, rPrev, L[j].name)
    /\ rOp.op = "new" =>
          \A j \in 1 .. Len(LayoutOf(rTy)) :
              BitfieldGet(LayoutOf(rTy), rStruct, LayoutOf(rTy)[j].name) = Got(0)

\* The left volume of a register read from hardware with every bit set was set
\* to zero: mute, the right volume and the reserved bits are still all ones.
C9_Witness ==
    /\ rOp.op = "set"
    /\ rOp.f = "left"
    /\ rTy = "MasterOutputVolume"
    /\ IntoRaw(rTy, rPrev) = 65535
    /\ IntoRaw(rTy, rStruct) = 49407
=============================================================================
